---- MODULE Spec2Model ----
(***************************************************************************)
(* mhagmajer:server-router: the server router (ServerRouter, its path      *)
(* entries, its route table, the sequential dispatch of _middleware), the  *)
(* token service behind the built-in authentication entry, and the client  *)
(* (ServerRouterClient: route URLs, redirectTo, the self-redirect on load).*)
(*                                                                         *)
(* Strings of the program that the code takes apart (the decoded pathname, *)
(* a repeated capture, a dotted route name) are sequences of atoms: an     *)
(* atom is a run of characters holding none of the characters the code     *)
(* splits or escapes at, and each of those characters ("/", ".", ",", the  *)
(* brackets, the double quote) is an atom of its own, as is each escape.   *)
(***************************************************************************)
EXTENDS Integers, Sequences, FiniteSets, TLC

\* ------------------------------------------------------------------ bounds
MaxUserPaths == 2       \* user path entries registered on one router
MaxTokens == 2          \* tokens Random.id() hands out in one behaviour
MaxTicks == 1           \* clock advances in one behaviour
MaxAddRoutes == 2       \* addRoutes calls after construction
MaxClientOps == 1       \* calls the page makes on its ServerRouterClient

\* ------------------------------------------------------- program constants
TokenTtl == 60000       \* 60 * 1000 ms added to Date.now() on issue

\* --------------------------------------------------------------- JS values
NoUser == "none"        \* a falsy userId: undefined, null or ''
NoToken == 0            \* an absent _t; issued tokens are 1, 2, ...
Users == {"u1", "u2"}

\* ------------------------------------------------------------ string tools
\* String.prototype.split(d): the pieces of s between the occurrences of d.
RECURSIVE Split(_, _)
Split(s, d) ==
  IF \A i \in 1..Len(s) : s[i] # d
    THEN <<s>>
    ELSE LET i == CHOOSE k \in 1..Len(s) :
                    s[k] = d /\ \A j \in 1..(k - 1) : s[j] # d
         IN  <<SubSeq(s, 1, i - 1)>> \o Split(SubSeq(s, i + 1, Len(s)), d)

\* The substring of the pathname covering the segments segs, '/' between them.
RECURSIVE Join(_, _)
Join(segs, d) ==
  IF segs = <<>> THEN <<>>
  ELSE IF Len(segs) = 1 THEN segs[1]
  ELSE segs[1] \o <<d>> \o Join(Tail(segs), d)

\* A run of atoms read as a property key: the inputs put a delimiter between
\* any two atoms of a name, so a piece is one atom or empty.
Str(piece) == IF piece = <<>> THEN "" ELSE piece[1]

\* ------------------------------------------------------------ EJSON values
\* The values handed to a route: a number, a string (its characters, as
\* atoms, none of them a comma or a double quote), an array of numbers and
\* strings.
Num(n) == [type |-> "number", n |-> n, chars |-> <<>>, items |-> <<>>]
Text(cs) == [type |-> "string", n |-> 0, chars |-> cs, items |-> <<>>]
Arr(vs) == [type |-> "array", n |-> 0, chars |-> <<>>, items |-> vs]

\* the texts of the numbers
EJSONValid == {"1", "2"}
NumText(n) == IF n = 1 THEN "1" ELSE "2"

ScalarText(v) ==
  IF v.type = "number" THEN <<NumText(v.n)>> ELSE <<"\"">> \o v.chars \o <<"\"">>

\* EJSON.stringify(v)
EJSONStringify(v) ==
  IF v.type = "array"
    THEN <<"[">> \o Join([i \in 1..Len(v.items) |-> ScalarText(v.items[i])], ",")
                \o <<"]">>
    ELSE ScalarText(v)

\* The texts EJSON.parse accepts; on any other text it throws.
IsNumberText(t) == Len(t) = 1 /\ t[1] \in EJSONValid
IsStringText(t) ==
  /\ Len(t) >= 2 /\ t[1] = "\"" /\ t[Len(t)] = "\""
  /\ \A i \in 2..(Len(t) - 1) : t[i] # "\""
IsScalarText(t) == IsNumberText(t) \/ IsStringText(t)
IsArrayText(t) ==
  /\ Len(t) >= 2 /\ t[1] = "[" /\ t[Len(t)] = "]"
  /\ LET inner == SubSeq(t, 2, Len(t) - 1)
         items == Split(inner, ",")
     IN  inner = <<>> \/ \A i \in 1..Len(items) : IsScalarText(items[i])
EJSONParses(t) == IsScalarText(t) \/ IsArrayText(t)

ParseScalar(t) ==
  IF IsNumberText(t) THEN Num(IF t[1] = "1" THEN 1 ELSE 2)
  ELSE Text(SubSeq(t, 2, Len(t) - 1))

\* EJSON.parse(t) of a text it accepts
EJSONParse(t) ==
  IF IsScalarText(t) THEN ParseScalar(t)
  ELSE LET inner == SubSeq(t, 2, Len(t) - 1)
           items == Split(inner, ",")
       IN  Arr(IF inner = <<>> THEN <<>>
               ELSE [i \in 1..Len(items) |-> ParseScalar(items[i])])

\* ------------------------------------------------------------ URI escapes
\* The characters of the model that encodeURIComponent escapes.
Escapes ==
  [c \in {"/", "[", "]", ",", "\""} |->
     IF c = "/" THEN "%2F" ELSE IF c = "[" THEN "%5B" ELSE IF c = "]" THEN "%5D"
     ELSE IF c = "," THEN "%2C" ELSE "%22"]

encodeURIComponent(t) ==
  [i \in 1..Len(t) |-> IF t[i] \in DOMAIN Escapes THEN Escapes[t[i]] ELSE t[i]]

decodeURIComponent(t) ==
  [i \in 1..Len(t) |->
     IF \E c \in DOMAIN Escapes : Escapes[c] = t[i]
       THEN CHOOSE c \in DOMAIN Escapes : Escapes[c] = t[i]
       ELSE t[i]]

\* ----------------------------------------------------------- path patterns
\* A compiled path: literal segments, then parameter tokens, and the `end`
\* option. Every token but the last captures one segment; the last may be
\* repeated (+, *) and optional (*, ?).
Tok(n, rep, opt) == [name |-> n, repeat |-> rep, optional |-> opt, delimiter |-> "/"]

\* path '/' with options {end: false}
AuthPath == [lits |-> <<>>, toks |-> <<>>, end |-> FALSE]

\* the default defaultRoutePath '/r/:name/:args*'
DefaultRoutePath ==
  [lits |-> << <<"r">> >>,
   toks |-> <<Tok("name", FALSE, FALSE), Tok("args", TRUE, TRUE)>>,
   end |-> TRUE]

\* user paths: '/r' and '/files' matched at the beginning, '/files/:p*'
PathR == [lits |-> << <<"r">> >>, toks |-> <<>>, end |-> FALSE]
PathFiles == [lits |-> << <<"files">> >>, toks |-> <<>>, end |-> FALSE]
PathFilesStar ==
  [lits |-> << <<"files">> >>, toks |-> <<Tok("p", TRUE, TRUE)>>, end |-> TRUE]
UserPatterns == {PathR, PathFiles, PathFilesStar}

NoCapture == [def |-> FALSE, str |-> <<>>]      \* a group that took no part
Capture(s) == [def |-> TRUE, str |-> s]

\* regexp.exec(decodedPath) of a path compiled by path-to-regexp 1.7.0 (not
\* strict, delimiter '/'); path is the pathname split at '/', the root path
\* '/' being the empty sequence. matches[0] is left out of caps.
Exec(pat, path) ==
  LET nl == Len(pat.lits)
      nt == Len(pat.toks)
      rest == SubSeq(path, nl + 1, Len(path))
      last == IF nt = 0 THEN Tok("", FALSE, FALSE) ELSE pat.toks[nt]
      single == IF last.repeat \/ last.optional THEN nt - 1 ELSE nt
      extra == Len(rest) - single      \* segments left for the last token
      fits ==
        /\ Len(path) >= nl
        /\ SubSeq(path, 1, nl) = pat.lits
        /\ extra >= 0
        /\ \/ nt = single /\ (extra = 0 \/ ~pat.end)
           \/ nt # single /\ last.repeat /\ (extra >= 1 \/ last.optional)
           \/ nt # single /\ ~last.repeat /\ (extra <= 1 \/ ~pat.end)
      cap(i) ==
        IF i <= single THEN Capture(rest[i])
        ELSE IF extra = 0 THEN NoCapture
        ELSE IF last.repeat
          THEN Capture(Join(SubSeq(rest, single + 1, Len(rest)), "/"))
          ELSE Capture(rest[single + 1])
  IN  IF fits
        THEN [matched |-> TRUE, caps |-> [i \in 1..nt |-> cap(i)]]
        ELSE [matched |-> FALSE, caps |-> <<>>]

\* matches.forEach of _middleware: a repeated token splits its capture at the
\* delimiter, and `undefined.split` raises a TypeError when the group took no
\* part in the match.
ParamsThrow(entry, path) ==
  LET m == Exec(entry.regexp, path)
  IN  m.matched /\ \E i \in 1..Len(m.caps) :
                      entry.tokens[i].repeat /\ ~m.caps[i].def

ParamValue(tok, c) ==
  IF tok.repeat THEN [type |-> "array", str |-> <<>>, list |-> Split(c.str, tok.delimiter)]
  ELSE IF c.def THEN [type |-> "string", str |-> c.str, list |-> <<>>]
  ELSE [type |-> "undefined", str |-> <<>>, list |-> <<>>]

Params(entry, path) ==
  LET m == Exec(entry.regexp, path)
  IN  [n \in {entry.tokens[i].name : i \in 1..Len(m.caps)} |->
         LET i == CHOOSE k \in 1..Len(m.caps) : entry.tokens[k].name = n
         IN  ParamValue(entry.tokens[i], m.caps[i])]

\* ------------------------------------------------------------- route table
\* A value met while walking the route table: a Route function, a nested
\* Routes object, a built-in function inherited from a prototype, undefined.
NoKids == <<>>
UndefinedNode == [kind |-> "undefined", id |-> "", kids |-> NoKids]
Fn(h) == [kind |-> "fn", id |-> h, kids |-> NoKids]
Obj(kids) == [kind |-> "obj", id |-> "", kids |-> kids]
Native(id) == [kind |-> "native", id |-> id, kids |-> NoKids]

Truthy(o) == o.kind # "undefined"

\* Members every object literal inherits from Object.prototype (toString
\* stands for them: constructor, valueOf, hasOwnProperty, ...).
ObjectPrototype == {"toString"}

\* o[part]: an own property, else an inherited one, else undefined.
Get(o, part) ==
  IF o.kind = "obj" /\ part \in DOMAIN o.kids THEN o.kids[part]
  ELSE IF o.kind = "obj" /\ part \in ObjectPrototype
    THEN Native("Object.prototype.toString")
  ELSE IF o.kind \in {"fn", "native"} /\ part \in ObjectPrototype
    THEN Native("Function.prototype.toString")
  ELSE UndefinedNode

\* parts.reduce((o, part) => o && o[part], obj)
RECURSIVE Reduce(_, _)
Reduce(o, parts) ==
  IF parts = <<>> THEN o
  ELSE Reduce(IF Truthy(o) THEN Get(o, Str(parts[1])) ELSE o, Tail(parts))

getFieldValue(obj, field) == Reduce(obj, Split(field, "."))

\* _.extend(dst, src): every own key of src is copied onto dst, one level deep.
extend(dst, src) ==
  Obj([k \in DOMAIN dst.kids \cup DOMAIN src.kids |->
         IF k \in DOMAIN src.kids THEN src.kids[k] ELSE dst.kids[k]])

\* ------------------------------------------------------------- token store
\* Mutant of matchedUsersCount: the expiry is not compared.
matchedAnyExpiry(store, userId, token, t) ==
  IF userId \in DOMAIN store /\ \E e \in store[userId] : e.token = token
    THEN 1 ELSE 0

\* Meteor.users.find({_id, _serverRouterTokens: {$elemMatch: {token,
\* expiry: {$gte: t}}}}).count()
matchedUsersCount(store, userId, token, t) ==
  IF userId \in DOMAIN store
       /\ \E e \in store[userId] : e.token = token /\ e.expiry >= t
    THEN 1 ELSE 0

\* Mutant of Pull: only the expired tokens are pulled.
PullExpired(store, userId, token, t) ==
  [store EXCEPT ![userId] = {e \in @ : ~(e.expiry < t)}]

\* Meteor.users.update(userId, {$pull: {_serverRouterTokens: {$or: [{token},
\* {expiry: {$lt: t}}]}}})
Pull(store, userId, token, t) ==
  [store EXCEPT ![userId] = {e \in @ : ~(e.token = token \/ e.expiry < t)}]

\* Mutant of Push: the token is pushed onto every user's set.
PushShared(store, userId, token, t) ==
  [u \in DOMAIN store |-> store[u] \cup {[token |-> token, expiry |-> t + TokenTtl]}]

\* Meteor.users.update(userId, {$push: {_serverRouterTokens: {expiry, token}}})
Push(store, userId, token, t) ==
  [store EXCEPT ![userId] = @ \cup {[token |-> token, expiry |-> t + TokenTtl]}]

\* ------------------------------------------------------------ path entries
AuthData == [path |-> AuthPath, args |-> "query", route |-> "auth"]
RouteData == [path |-> DefaultRoutePath, args |-> "ejson", route |-> "catchAll"]
UserData(p) == [path |-> p, args |-> "user", route |-> "user"]

addPath(ps, data) ==
  Append(ps, [regexp |-> data.path, tokens |-> data.path.toks,
              route |-> data.route, args |-> data.args])

RECURSIVE addPaths(_, _)
addPaths(ps, data) ==
  IF data = <<>> THEN ps ELSE addPaths(addPath(ps, Head(data)), Tail(data))

\* ------------------------------------------------------------------- state
VARIABLES
  paths,      \* this._paths
  routes,     \* this._routes
  tokens,     \* _serverRouterTokens of every user
  issued,     \* the tokens handed out so far: token n is issued[n]
  now,        \* Date.now()
  reqs,       \* the requests: inputs, context, promise chain, response
  added,      \* the trees handed to addRoutes so far, the constructor's first
  client      \* the browser: ServerRouterClient, Meteor.userId(), window.location

vars == <<paths, routes, tokens, issued, now, reqs, added, client>>

\* The requests of one behaviour: a first one and a second one, which share
\* nothing but the router and the token store.
Req == {1, 2}

IdleReq ==
  [pc |-> "idle", path |-> <<>>, query |-> [u |-> NoUser, t |-> NoToken],
   npaths |-> 0, chain |-> <<>>, pos |-> 0, attached |-> FALSE,
   userId |-> NoUser, reason |-> "none",
   ends |-> <<>>, nextLog |-> <<>>, signal |-> FALSE,
   mapped |-> <<>>, invoked |-> <<>>, results |-> <<>>, routeCalls |-> <<>>]

\* new ServerRouter(options): the two built-in entries, then options.paths,
\* then options.routes merged into the empty route table.
Constructor(options) ==
  [paths |-> addPaths(addPath(addPath(<<>>, AuthData), RouteData), options.paths),
   routes |-> extend(Obj(NoKids), options.routes)]

\* --------------------------------------------------------- promise chain
Indexes(n) == [i \in 1..n |-> i]

\* The entry at which the reduce of _middleware is cut short by the TypeError
\* of the parameter extraction; 0 when the reduce runs to its end.
CrashAt(ps, path) ==
  IF \E i \in 1..Len(ps) : ParamsThrow(ps[i], path)
    THEN CHOOSE i \in 1..Len(ps) :
           ParamsThrow(ps[i], path) /\ \A j \in 1..(i - 1) : ~ParamsThrow(ps[j], path)
    ELSE 0

\* Mutant of Chain: the entries are chained last registered first.
ChainLastFirst(ps, path) ==
  LET n == Len(ps)
      Hit(i) == Exec(ps[i].regexp, path).matched
  IN  SelectSeq([i \in 1..n |-> n + 1 - i], Hit)

\* The entries the reduce chained a `.then` for: those whose regexp matched,
\* in the order of this._paths, up to the entry that cut the reduce short.
Chain(ps, path) ==
  LET c == CrashAt(ps, path)
      Chained(i) == Exec(ps[i].regexp, path).matched /\ (c = 0 \/ i < c)
  IN  SelectSeq(Indexes(Len(ps)), Chained)

\* The chain is rejected: every later `.then` is skipped. With no rejection
\* handler attached (the reduce threw) nothing more runs for the request.
Reject(st, reason) ==
  [st EXCEPT !.pc = IF st.attached THEN "rejected" ELSE "done", !.reason = reason]

\* The entry's promise is fulfilled with undefined: the next `.then` runs.
Advance(st) ==
  IF st.pos < Len(st.chain)
    THEN [st EXCEPT !.pc = "ready", !.pos = st.pos + 1]
    ELSE [st EXCEPT !.pc = IF st.attached THEN "resolved" ELSE "done"]

\* Mutant of OnResult: the response is ended but responseReady is not thrown.
OnResultGoesOn(st, result, data) ==
  Advance([st EXCEPT !.ends =
             IF result = "null" THEN Append(@, [by |-> "router", data |-> ""])
             ELSE IF result = "body" THEN Append(@, [by |-> "router", data |-> data])
             ELSE @])

\* .then((result) => { ... throw responseReady; })
OnResult(st, result, data) ==
  IF result = "undefined" THEN Advance(st)
  ELSE Reject([st EXCEPT !.ends =
                 IF result = "null" THEN Append(@, [by |-> "router", data |-> ""])
                 ELSE IF result = "body" THEN Append(@, [by |-> "router", data |-> data])
                 ELSE @],
              "responseReady")

\* A handler settles: with kind undefined, null, body (a string or Buffer)
\* or other it returned that value, with authRequired or error it threw;
\* ended tells whether it called this.res.end() itself.
Settled(st, kind, ended, data) ==
  LET st1 == [st EXCEPT !.results = Append(@, kind),
                        !.ends = IF ended THEN Append(@, [by |-> "handler", data |-> "self"])
                                 ELSE @]
  IN  IF kind \in {"authRequired", "error", "TypeError"}
        THEN Reject(st1, kind)
        ELSE OnResult(st1, kind, data)

Current(st) == paths[st.chain[st.pos]]

Called(st) ==
  [st EXCEPT !.mapped = Append(@, st.chain[st.pos]),
             !.invoked = Append(@, st.chain[st.pos])]

\* --------------------------------------------------------------- actions
\* _middleware, its synchronous part: the reduce over this._paths.
Middleware(r, path, query) ==
  /\ reqs[r].pc = "idle"
  /\ LET ch == Chain(paths, path)
         ok == CrashAt(paths, path) = 0
     IN  reqs' = [reqs EXCEPT ![r] =
           [IdleReq EXCEPT !.path = path, !.query = query, !.npaths = Len(paths),
                           !.chain = ch, !.pos = 1, !.attached = ok,
                           !.pc = IF ch # <<>> THEN "ready"
                                  ELSE IF ok THEN "resolved" ELSE "done"]]
  /\ UNCHANGED <<paths, routes, tokens, issued, now, added, client>>

\* Mutant of InvokeAuth: the token is looked up in every user's set.
InvokeAuthAnyUser(r) ==
  LET st == reqs[r] IN
  /\ st.pc = "ready"
  /\ Current(st).route = "auth"
  /\ reqs' = [reqs EXCEPT ![r] =
       IF st.query.u = NoUser
         THEN Settled(Called(st), "undefined", FALSE, "")
       ELSE IF \A u \in Users : matchedUsersCount(tokens, u, st.query.t, now) = 0
         THEN Settled(Called(st), "authRequired", FALSE, "")
       ELSE [Called(st) EXCEPT !.pc = "authPull"]]
  /\ UNCHANGED <<paths, routes, tokens, issued, now, added, client>>

\* The built-in entry '/': args (params, query) => [query], and its route up
\* to the store lookup.
InvokeAuth(r) ==
  LET st == reqs[r] IN
  /\ st.pc = "ready"
  /\ Current(st).route = "auth"
  /\ reqs' = [reqs EXCEPT ![r] =
       IF st.query.u = NoUser
         THEN Settled(Called(st), "undefined", FALSE, "")
       ELSE IF matchedUsersCount(tokens, st.query.u, st.query.t, now) = 0
         THEN Settled(Called(st), "authRequired", FALSE, "")
       ELSE [Called(st) EXCEPT !.pc = "authPull"]]
  /\ UNCHANGED <<paths, routes, tokens, issued, now, added, client>>

\* The rest of the built-in route: the $pull and context.userId = userId.
AuthPull(r) ==
  LET st == reqs[r] IN
  /\ st.pc = "authPull"
  /\ tokens' = Pull(tokens, st.query.u, st.query.t, now)
  /\ reqs' = [reqs EXCEPT ![r] =
       Settled([st EXCEPT !.userId = st.query.u], "undefined", FALSE, "")]
  /\ UNCHANGED <<paths, routes, issued, now, added, client>>

\* The catch-all entry: its args mapper, then its route, which looks the name
\* up and applies what it finds.
InvokeRoute(r) ==
  LET st == reqs[r]
      params == Params(Current(st), st.path)
      name == params["name"].str
      args == params["args"].list
      route == getFieldValue(routes, name)
      rest == [i \in 1..Len(args) |-> EJSONParse(args[i])]
      st1 == [Called(st) EXCEPT !.routeCalls = Append(@, [id |-> route.id, args |-> rest])]
  IN
  /\ st.pc = "ready"
  /\ Current(st).route = "catchAll"
  /\ reqs' = [reqs EXCEPT ![r] =
       IF \E i \in 1..Len(args) : ~EJSONParses(args[i])
         THEN Reject([st EXCEPT !.mapped = Append(@, st.chain[st.pos])], "parseError")
       ELSE IF ~Truthy(route)
         THEN Settled(Called(st), "undefined", FALSE, "")
       ELSE IF route.kind = "fn"
         THEN [st1 EXCEPT !.pc = "pending"]
       ELSE IF route.id = "Object.prototype.toString"
         THEN Settled(st1, "body", FALSE, "[object Object]")
       ELSE Settled(Called(st), "TypeError", FALSE, "")]
  /\ UNCHANGED <<paths, routes, tokens, issued, now, added, client>>

\* A user entry: its args mapper, which may throw, then its route is called.
MapperOutcomes == {"ok", "error", "authRequired"}
InvokeUser(r, m) ==
  LET st == reqs[r] IN
  /\ st.pc = "ready"
  /\ Current(st).route = "user"
  /\ reqs' = [reqs EXCEPT ![r] =
       IF m = "ok" THEN [Called(st) EXCEPT !.pc = "pending"]
       ELSE Reject([st EXCEPT !.mapped = Append(@, st.chain[st.pos])], m)]
  /\ UNCHANGED <<paths, routes, tokens, issued, now, added, client>>

\* The promise of a user route (a path's or a named one) settles.
Outcomes ==
  [kind : {"undefined", "null", "body", "other", "authRequired", "error"},
   ended : BOOLEAN]
Settle(r, out) ==
  /\ reqs[r].pc = "pending"
  /\ reqs' = [reqs EXCEPT ![r] = Settled(reqs[r], out.kind, out.ended, "data")]
  /\ UNCHANGED <<paths, routes, tokens, issued, now, added, client>>

\* .then(next, (reason) => { ... }) at the end of the chain.
Complete(r) ==
  LET st == reqs[r] IN
  /\ st.pc \in {"resolved", "rejected"}
  /\ reqs' = [reqs EXCEPT ![r] =
       IF st.pc = "resolved"
         THEN [st EXCEPT !.pc = "done", !.nextLog = Append(@, "noError")]
       ELSE IF st.reason = "authRequired"
         THEN [st EXCEPT !.pc = "done", !.signal = TRUE,
                         !.nextLog = Append(@, "noError")]
       ELSE IF st.reason = "responseReady"
         THEN [st EXCEPT !.pc = "done"]
       ELSE [st EXCEPT !.pc = "done", !.nextLog = Append(@, st.reason)]]
  /\ UNCHANGED <<paths, routes, tokens, issued, now, added, client>>

\* serverRouter.addPath(data) after construction.
AddPath(p) ==
  /\ Len(paths) < 2 + MaxUserPaths
  /\ paths' = addPath(paths, UserData(p))
  /\ UNCHANGED <<routes, tokens, issued, now, reqs, added, client>>

\* serverRouter.addRoutes(tree)
AddRoutes(tree) ==
  /\ Len(added) < 1 + MaxAddRoutes
  /\ routes' = extend(routes, tree)
  /\ added' = Append(added, tree)
  /\ UNCHANGED <<paths, tokens, issued, now, reqs, client>>

\* Meteor method _ServerRouterGetUserToken called with this.userId = caller;
\* Random.id() never repeats a token.
GetUserToken(caller) ==
  /\ caller # NoUser => Len(issued) < MaxTokens
  /\ IF caller = NoUser
       THEN UNCHANGED <<tokens, issued>>
       ELSE /\ tokens' = Push(tokens, caller, Len(issued) + 1, now)
            /\ issued' = Append(issued, [user |-> caller, expiry |-> now + TokenTtl])
  /\ UNCHANGED <<paths, routes, now, reqs, added, client>>

\* Time passes: the lifetime of a token, or one millisecond more.
Tick(d) ==
  /\ now \div TokenTtl < MaxTicks
  /\ now' = now + d
  /\ UNCHANGED <<paths, routes, tokens, issued, reqs, added, client>>

\* ------------------------------------------------------------------ client
\* A URL: the text of its pathname, and its query string as the keys in
\* their order with the value of each.
Href(path, keys, vals) == [path |-> path, keys |-> keys, vals |-> vals]
NoVals == <<>>

\* pathToRegexp.compile(path)(data): the literals, then the values of every
\* token, each escaped and behind the delimiter; an optional token without
\* values is left out.
RECURSIVE Concat(_)
Concat(ts) == IF ts = <<>> THEN <<>> ELSE Head(ts) \o Concat(Tail(ts))

compile(pat, data) ==
  Concat([i \in 1..Len(pat.lits) |-> <<"/">> \o pat.lits[i]])
    \o Concat([i \in 1..Len(pat.toks) |->
          LET tok == pat.toks[i]
              segs == data[tok.name]
          IN  Concat([j \in 1..Len(segs) |->
                        <<tok.delimiter>> \o encodeURIComponent(segs[j])])])

\* getRouteUrl(name, ...args)
getRouteUrl(name, args) ==
  compile(DefaultRoutePath,
          ("name" :> <<name>>)
            @@ ("args" :> [i \in 1..Len(args) |-> EJSONStringify(args[i])]))

\* The deep keys mapValuesDeep hands to its mapper: one for every value of
\* the tree that is not an object.
RECURSIVE mapValuesDeep(_, _)
mapValuesDeep(obj, keyPrefix) ==
  UNION { IF obj.kids[k].kind = "obj"
            THEN mapValuesDeep(obj.kids[k], keyPrefix \o <<k, ".">>)
            ELSE {keyPrefix \o <<k>>} : k \in DOMAIN obj.kids }

\* The function _createRouteHandlers puts at a leaf: (...args) =>
\* this.getRouteUrl(name, args), the rest array handed over as one argument.
routeHandlerUrl(name, args) == getRouteUrl(name, <<Arr(args)>>)

\* queryString.stringify(query): the keys sorted; those of the model, in
\* their sort order.
KeysSorted == <<"_t", "_u", "a", "b">>
stringify(query) ==
  LET Has(k) == k \in DOMAIN query IN SelectSeq(KeysSorted, Has)

\* The server's view of a request for a URL: url.parse(req.url, true), the
\* pathname decoded and split at '/' (a trailing '/' is optional).
ServerPath(text) ==
  LET pieces == Tail(Split(decodeURIComponent(text), "/"))
  IN  IF pieces # <<>> /\ pieces[Len(pieces)] = <<>>
        THEN SubSeq(pieces, 1, Len(pieces) - 1)
        ELSE pieces

ServerQuery(href) ==
  [u |-> IF "_u" \in DOMAIN href.vals THEN href.vals["_u"] ELSE NoUser,
   t |-> IF "_t" \in DOMAIN href.vals THEN href.vals["_t"] ELSE NoToken]

NoCall == [name |-> <<>>, args |-> <<>>, via |-> "none"]

\* A page in the browser: Meteor.userId(), the identity the server holds for
\* the page's connection, window.location.href, the injected signal.
IdleClient(userId, session, href, signal) ==
  [userId |-> userId, session |-> session, href |-> href, signal |-> signal,
   loaded |-> FALSE, rpc |-> "none", token |-> NoToken, target |-> href,
   uid |-> NoUser, rpcs |-> 0, navs |-> <<>>, outcomes |-> <<>>,
   call |-> NoCall, url |-> <<>>, ops |-> 0]

\* Mutant of redirectTo: the method is called whoever uses the page.
redirectToUnchecked(c, href) ==
  [c EXCEPT !.rpc = "sent", !.target = href, !.uid = c.userId, !.rpcs = @ + 1]

\* redirectTo(href) up to its await: without a user it navigates at once,
\* with one it calls the method _ServerRouterGetUserToken. target is the
\* argument href, uid the constant userId.
redirectTo(c, href) ==
  IF c.userId = NoUser
    THEN [c EXCEPT !.target = href, !.href = href, !.navs = Append(@, href),
                   !.outcomes = Append(@, "resolved")]
    ELSE [c EXCEPT !.rpc = "sent", !.target = href, !.uid = c.userId,
                   !.rpcs = @ + 1]

\* The page runs its code until the browser has requested another document.
PageAlive == \A r \in Req : reqs[r].pc = "idle"

\* serverRouterClient.redirectTo(href) called by the page.
RedirectTo(href) ==
  /\ PageAlive
  /\ client.rpc = "none"
  /\ client.ops < MaxClientOps
  /\ client' = [redirectTo(client, href) EXCEPT !.ops = @ + 1]
  /\ UNCHANGED <<paths, routes, tokens, issued, now, reqs, added>>

\* Mutant of ClientLoad: the signal is not looked at.
ClientLoadUnsignalled ==
  /\ PageAlive
  /\ ~client.loaded
  /\ client.rpc = "none"
  /\ client' = [redirectTo(client, client.href) EXCEPT !.loaded = TRUE]
  /\ UNCHANGED <<paths, routes, tokens, issued, now, reqs, added>>

\* new ServerRouterClient(options) on page load: the callback of
\* InjectData.getData('_ServerRouterAuthenticationRequired', ...).
ClientLoad ==
  /\ PageAlive
  /\ ~client.loaded
  /\ client.rpc = "none"
  /\ client' =
       IF ~client.signal \/ client.userId = NoUser
         THEN [client EXCEPT !.loaded = TRUE]
         ELSE [redirectTo(client, client.href) EXCEPT !.loaded = TRUE]
  /\ UNCHANGED <<paths, routes, tokens, issued, now, reqs, added>>

\* The server runs _ServerRouterGetUserToken for the page's call, or the
\* call fails.
TokenMethod(fails) ==
  /\ client.rpc = "sent"
  /\ IF fails
       THEN /\ client' = [client EXCEPT !.rpc = "error"]
            /\ UNCHANGED <<tokens, issued>>
     ELSE IF client.session = NoUser
       THEN /\ client' = [client EXCEPT !.rpc = "result", !.token = NoToken]
            /\ UNCHANGED <<tokens, issued>>
     ELSE /\ Len(issued) < MaxTokens
          /\ tokens' = Push(tokens, client.session, Len(issued) + 1, now)
          /\ issued' = Append(issued, [user |-> client.session,
                                       expiry |-> now + TokenTtl])
          /\ client' = [client EXCEPT !.rpc = "result", !.token = Len(issued) + 1]
  /\ UNCHANGED <<paths, routes, now, reqs, added>>

\* The callback of Meteor.call and the rest of redirectTo: the query of
\* href is parsed, _u and _t are assigned, and the browser navigates.
TokenCallback ==
  /\ PageAlive
  /\ client.rpc \in {"result", "error"}
  /\ client' =
       IF client.rpc = "error"
         THEN [client EXCEPT !.rpc = "none", !.outcomes = Append(@, "rejected")]
         ELSE LET query == ("_u" :> client.uid) @@ ("_t" :> client.token)
                             @@ client.target.vals
                  href == Href(client.target.path, stringify(query), query)
              IN  [client EXCEPT !.rpc = "none", !.href = href,
                                 !.navs = Append(@, href),
                                 !.outcomes = Append(@, "resolved")]
  /\ UNCHANGED <<paths, routes, tokens, issued, now, reqs, added>>

\* serverRouterClient.getRouteUrl(name, ...args) called by the page.
GetRouteUrl(name, args) ==
  /\ PageAlive
  /\ client.ops < MaxClientOps
  /\ client' = [client EXCEPT !.ops = @ + 1, !.url = getRouteUrl(name, args),
                              !.call = [name |-> name, args |-> args,
                                        via |-> "getRouteUrl"]]
  /\ UNCHANGED <<paths, routes, tokens, issued, now, reqs, added>>

\* serverRouterClient.url.<name>(...args) and .redirect.<name>(...args)
RouteHandler(name, args, redirect) ==
  LET url == routeHandlerUrl(name, args)
      c == [client EXCEPT !.ops = @ + 1, !.url = url,
                          !.call = [name |-> name, args |-> args,
                                    via |-> IF redirect THEN "redirect" ELSE "url"]]
  IN
  /\ PageAlive
  /\ client.rpc = "none"
  /\ client.ops < MaxClientOps
  /\ client' = IF redirect THEN redirectTo(c, Href(url, <<>>, NoVals)) ELSE c
  /\ UNCHANGED <<paths, routes, tokens, issued, now, reqs, added>>

\* The browser requests window.location.href, or a link made of the URL last
\* built.
Request(r) ==
  \E h \in {client.href} \cup {Href(client.url, <<>>, NoVals)} :
    /\ h.path # <<>>
    /\ Middleware(r, ServerPath(h.path), ServerQuery(h))

\* The browser, sent to window.location.href by the page, requests it.
Navigate(r) ==
  /\ client.navs # <<>>
  /\ Middleware(r, ServerPath(client.href.path), ServerQuery(client.href))

\* The middleware called next() and nothing ended the response: the
\* application's document is served with the data injected into the response,
\* and the browser loads it as a new page.
PageLoad(r) ==
  /\ reqs[r].pc = "done"
  /\ reqs[r].nextLog = <<"noError">>
  /\ reqs[r].ends = <<>>
  /\ client' = IdleClient(client.userId, client.session, client.href, reqs[r].signal)
  /\ reqs' = [reqs EXCEPT ![r] = IdleReq]
  /\ UNCHANGED <<paths, routes, tokens, issued, now, added>>

\* A route for users only, as the Route doc describes it: it throws
\* AuthenticationRequiredError unless this.userId is set, and returns its
\* response otherwise.
PrivateRoute(st) ==
  [kind |-> IF st.userId = NoUser THEN "authRequired" ELSE "body", ended |-> FALSE]

\* ------------------------------------------------------------------ inputs
Seg(a) == <<a>>
RootPath == <<>>                                        \* '/'
RoutePath(name, args) == <<Seg("r"), name>> \o args     \* '/r/<name>/<args>'

Hello == <<"hello">>
NameAB == <<"a", ".", "b">>
NameAC == <<"a", ".", "c">>

\* the requests of the dispatch specification
RequestPaths ==
  { RootPath,
    RoutePath(Hello, <<>>),                     \* /r/hello
    RoutePath(Hello, <<Seg("1")>>),             \* /r/hello/1
    RoutePath(Hello, <<Seg("1"), Seg("x")>>),   \* /r/hello/1/x: x is no EJSON
    RoutePath(<<"nope">>, <<Seg("1")>>),        \* /r/nope/1
    RoutePath(<<"toString">>, <<Seg("1")>>),    \* /r/toString/1
    <<Seg("files")>>,                           \* /files
    <<Seg("files"), Seg("1")>> }                \* /files/1

NoQuery == [u |-> NoUser, t |-> NoToken]
Queries == {NoQuery} \cup [u : Users, t : 0..MaxTokens]

\* options.paths: up to MaxUserPaths user paths
PathOptions ==
  UNION {[1..n -> {UserData(p) : p \in UserPatterns}] : n \in 0..MaxUserPaths}

ExampleRoutes == Obj("hello" :> Fn("hello"))

\* route trees handed to addRoutes
Tree(a, b, h) == Obj(a :> Obj(b :> Fn(h)))
Trees ==
  { Tree("a", "b", "h1"), Tree("a", "c", "h2"), Tree("a", "b", "h2"),
    Obj("a" :> Fn("h3")), ExampleRoutes }

\* the route table of the README's server and a nested one, with the mirror
\* the client is given (any value that is no object stands for a route)
MirrorRoutes == Obj(("hello" :> Fn("hello")) @@ ("a" :> Obj("b" :> Fn("h1"))))
Leaf == [kind |-> "value", id |-> "1", kids |-> NoKids]
ClientRoutes == Obj(("hello" :> Leaf) @@ ("a" :> Obj("b" :> Leaf)))

\* argument lists of a route call: none, numbers, 'John', 'a/b'
ArgLists ==
  { <<>>, <<Num(1)>>, <<Num(1), Num(2)>>, <<Text(<<"John">>)>>,
    <<Text(<<"a", "/", "b">>)>> }

\* URLs the page is at or redirects to: /files?b=2&a=1, /r/hello/1 and
\* /files?_u=u2&a=1
ClientHrefs ==
  { Href(<<"/", "files">>, <<"b", "a">>, ("a" :> "1") @@ ("b" :> "2")),
    Href(<<"/", "r", "/", "hello", "/", "1">>, <<>>, NoVals),
    Href(<<"/", "files">>, <<"_u", "a">>, ("_u" :> "u2") @@ ("a" :> "1")) }

Constructed(options) ==
  /\ paths = Constructor(options).paths
  /\ routes = Constructor(options).routes
  /\ added = <<options.routes>>
  /\ tokens = [u \in Users |-> {}]
  /\ issued = <<>>
  /\ now = 0
  /\ reqs = [r \in Req |-> IdleReq]

\* a router no page of the model talks to
NoClient == IdleClient(NoUser, NoUser, Href(<<>>, <<>>, NoVals), FALSE)

\* --------------------------------------------------------- specifications
\* Dispatch of one request by a router built with any options.paths.
Init ==
  /\ \E ps \in PathOptions : Constructed([paths |-> ps, routes |-> ExampleRoutes])
  /\ client = NoClient

Next ==
  \/ \E p \in RequestPaths, q \in {NoQuery, [u |-> "u1", t |-> 1]} : Middleware(1, p, q)
  \/ InvokeAuth(1)
  \/ AuthPull(1)
  \/ InvokeRoute(1)
  \/ \E m \in MapperOutcomes : InvokeUser(1, m)
  \/ \E out \in Outcomes : Settle(1, out)
  \/ Complete(1)
  \/ \E p \in UserPatterns : AddPath(p)
  \/ GetUserToken("u1")

Spec == Init /\ [][Next]_vars

\* The token service: requests to '/' carrying _u and a _t that is absent (0)
\* or was handed out before (Random.id() cannot be guessed ahead), tokens
\* issued, time. The request slots are taken in their order.
InitTokens ==
  /\ Constructed([paths |-> <<>>, routes |-> Obj(NoKids)])
  /\ client = NoClient

NextTokens ==
  \/ \E r \in Req, q \in [u : Users, t : 0..Len(issued)] :
       /\ \A o \in 1..(r - 1) : reqs[o].pc # "idle"
       /\ Middleware(r, RootPath, q)
  \/ \E r \in Req : InvokeAuth(r)
  \/ \E r \in Req : AuthPull(r)
  \/ \E r \in Req : Complete(r)
  \/ \E c \in Users \cup {NoUser} : GetUserToken(c)
  \/ \E d \in {TokenTtl, TokenTtl + 1} : Tick(d)

SpecTokens == InitTokens /\ [][NextTokens]_vars

\* The route table: addRoutes and requests to the named routes.
InitRoutes ==
  /\ \E t \in Trees : Constructed([paths |-> <<>>, routes |-> t])
  /\ client = NoClient

NextRoutes ==
  \/ \E t \in Trees : AddRoutes(t)
  \/ \E n \in {Hello, NameAB, NameAC, <<"a">>} :
       Middleware(1, RoutePath(n, <<Seg("1")>>), NoQuery)
  \/ InvokeAuth(1)
  \/ InvokeRoute(1)
  \/ \E out \in Outcomes : Settle(1, out)
  \/ Complete(1)

SpecRoutes == InitRoutes /\ [][NextRoutes]_vars

\* The client: a page of a user (or of nobody) uses its ServerRouterClient,
\* the token method answers, and the server dispatches what the browser
\* requests.
InitClient ==
  /\ Constructed([paths |-> <<>>, routes |-> MirrorRoutes])
  /\ \E u \in {NoUser, "u1"}, s \in {NoUser, "u1"}, h \in ClientHrefs, sig \in BOOLEAN :
       /\ s \in {NoUser, u}
       /\ client = IdleClient(u, s, h, sig)

NextClient ==
  \/ ClientLoad
  \/ \E h \in ClientHrefs : RedirectTo(h)
  \/ \E f \in BOOLEAN : TokenMethod(f)
  \/ TokenCallback
  \/ \E n \in mapValuesDeep(ClientRoutes, <<>>), as \in ArgLists, rd \in BOOLEAN :
       RouteHandler(n, as, rd)
  \/ \E n \in mapValuesDeep(ClientRoutes, <<>>), as \in ArgLists : GetRouteUrl(n, as)
  \/ Request(1)
  \/ InvokeAuth(1)
  \/ AuthPull(1)
  \/ InvokeRoute(1)
  \/ \E out \in {o \in Outcomes : o.kind \in {"undefined", "body"} /\ ~o.ended} :
       Settle(1, out)
  \/ Complete(1)

SpecClient == InitClient /\ [][NextClient]_vars

\* Authentication in front of the routes: a router with the public user path
\* '/r', requests with and without _u and _t, tokens issued, time.
AuthPaths == {RootPath, RoutePath(Hello, <<>>), RoutePath(Hello, <<Seg("1")>>)}

InitAuth ==
  /\ Constructed([paths |-> <<UserData(PathR)>>, routes |-> ExampleRoutes])
  /\ client = NoClient

NextAuth ==
  \/ \E p \in AuthPaths, q \in {NoQuery} \cup [u : Users, t : 0..Len(issued)] :
       Middleware(1, p, q)
  \/ InvokeAuth(1)
  \/ AuthPull(1)
  \/ InvokeRoute(1)
  \/ \E m \in MapperOutcomes : InvokeUser(1, m)
  \/ \E out \in {o \in Outcomes : o.kind \in {"undefined", "body"} /\ ~o.ended} :
       Settle(1, out)
  \/ Complete(1)
  \/ \E c \in Users : GetUserToken(c)
  \/ \E d \in {TokenTtl, TokenTtl + 1} : Tick(d)

SpecAuth == InitAuth /\ [][NextAuth]_vars

\* The handshake: the browser of a user is sent to the URL of a route for
\* users only; the server dispatches, the page loads, reads the signal and
\* redirects itself, and so on. The server knows the user of the page's
\* connection, or does not. Every step but the passing of time is taken once
\* it can be: the event loops of the server and of the page run what is
\* ready, the method call is answered, the browser follows a navigation.
HandshakeHrefs ==
  { Href(<<"/", "r", "/", "hello", "/", "1">>, <<>>, NoVals),
    Href(<<"/", "r", "/", "hello", "/", "1">>, <<"a">>, "a" :> "1") }

InitHandshake ==
  /\ Constructed([paths |-> <<>>, routes |-> ExampleRoutes])
  /\ \E s \in {NoUser, "u1"}, h \in HandshakeHrefs :
       client = [IdleClient("u1", s, h, FALSE) EXCEPT !.loaded = TRUE, !.navs = <<h>>]

NextHandshake ==
  \/ Navigate(1)
  \/ InvokeAuth(1)
  \/ AuthPull(1)
  \/ InvokeRoute(1)
  \/ Settle(1, PrivateRoute(reqs[1]))
  \/ Complete(1)
  \/ PageLoad(1)
  \/ ClientLoad
  \/ TokenMethod(FALSE)
  \/ TokenCallback
  \/ \E d \in {TokenTtl, TokenTtl + 1} : Tick(d)

SpecHandshake ==
  /\ InitHandshake
  /\ [][NextHandshake]_vars
  /\ WF_vars(Navigate(1))
  /\ WF_vars(InvokeAuth(1))
  /\ WF_vars(AuthPull(1))
  /\ WF_vars(InvokeRoute(1))
  /\ WF_vars(Settle(1, PrivateRoute(reqs[1])))
  /\ WF_vars(Complete(1))
  /\ WF_vars(PageLoad(1))
  /\ WF_vars(ClientLoad)
  /\ WF_vars(TokenMethod(FALSE))
  /\ WF_vars(TokenCallback)

\* ---------------------------------------------------------------- claims
\* The entries registered when the request came in whose path matches it, in
\* registration order.
Matching(st) ==
  LET Hit(i) == Exec(paths[i].regexp, st.path).matched
  IN  SelectSeq(Indexes(st.npaths), Hit)

IsPrefix(s, t) == Len(s) <= Len(t) /\ s = SubSeq(t, 1, Len(s))

RouterEnds(st) == {i \in 1..Len(st.ends) : st.ends[i].by = "router"}

Started(st) == st.pc # "idle"

\* C1: the args mappers and the handlers are called in registration order,
\* on the matching entries only and skipping none, and an entry's mapper or
\* handler is called only once the handler of every entry called before it
\* has settled.
C1_RegistrationOrder ==
  \A r \in Req :
    LET st == reqs[r] IN
    /\ IsPrefix(st.mapped, Matching(st))
    /\ IsPrefix(st.invoked, st.mapped)
    /\ Len(st.invoked) >= Len(st.mapped) - 1
    /\ Len(st.results) >= Len(st.mapped) - 1
    /\ Len(st.results) <= Len(st.invoked)

\* Three matching entries were called one after the other.
C1_Witness ==
  \E r \in Req : Len(reqs[r].invoked) >= 3 /\ Len(reqs[r].results) >= 3

\* C2: once a handler has returned null, a string or a Buffer, the router has
\* ended the response once (with no body for null, with the returned body
\* otherwise), no later entry's mapper or handler is called, and next is not
\* called, neither without an error nor with the responseReady value.
C2_ResponseStops ==
  \A r \in Req :
    LET st == reqs[r] IN
    \A k \in 1..Len(st.results) :
      st.results[k] \in {"null", "body"} =>
        /\ k = Len(st.results)
        /\ Len(st.mapped) = k
        /\ Len(st.invoked) = k
        /\ st.nextLog = <<>>
        /\ st.pc \in {"rejected", "done"}
        /\ st.reason = "responseReady"
        /\ Cardinality(RouterEnds(st)) = 1
        /\ \A i \in RouterEnds(st) :
             IF st.results[k] = "null" THEN st.ends[i].data = ""
             ELSE st.ends[i].data \in {"data", "[object Object]"}

\* A handler returned a body while a later matching entry was waiting, and
\* the request is over.
C2_Witness ==
  \E r \in Req :
    LET st == reqs[r] IN
    /\ st.pc = "done"
    /\ st.results # <<>>
    /\ st.results[Len(st.results)] = "body"
    /\ Len(Matching(st)) > Len(st.invoked)

\* C3: a handler that returns undefined never makes the router end the
\* response, dispatch goes on with the next matching entry, and a request
\* whose matching handlers all returned undefined ends with next() called
\* once, with no error.
C3_UndefinedPassesOn ==
  \A r \in Req :
    LET st == reqs[r] IN
    /\ (\A k \in 1..Len(st.results) : st.results[k] = "undefined") => RouterEnds(st) = {}
    /\ (st.pc = "done" /\ st.reason = "none") =>
         /\ st.invoked = Matching(st)
         /\ st.nextLog = <<"noError">>

\* C4: when a handler fails with AuthenticationRequiredError no later entry
\* is called, and the request ends with the one-shot signal armed and next()
\* called once, with no error.
C4_AuthRequiredPassesThrough ==
  \A r \in Req :
    LET st == reqs[r] IN
    /\ st.reason = "authRequired" => Len(st.mapped) = st.pos
    /\ (st.pc = "done" /\ st.reason = "authRequired") =>
         /\ st.signal
         /\ st.nextLog = <<"noError">>

\* C5: when a mapper or a handler fails with another error no later entry is
\* called, the signal is not armed, and the request ends with next(error)
\* called once with that error.
C5_ErrorReachesNext ==
  \A r \in Req :
    LET st == reqs[r] IN
    st.reason \in {"error", "parseError", "TypeError"} =>
      /\ Len(st.mapped) = st.pos
      /\ ~st.signal
      /\ st.pc = "done" => st.nextLog = <<st.reason>>

\* C6: next is never called on a request whose response has been ended, be
\* it by the router or by a handler.
C6_NoNextAfterEnd ==
  [][\A r \in Req :
       reqs'[r].nextLog # reqs[r].nextLog => reqs[r].ends = <<>>]_vars

\* The step in which request r's built-in route looks its token up.
LookupStep(r) ==
  /\ reqs[r].pc = "ready"
  /\ Current(reqs[r]).route = "auth"
  /\ reqs[r].query.u # NoUser
  /\ reqs'[r] # reqs[r]

\* Token q.t was issued to user q.u.
IssuedTo(q) ==
  q.t \in 1..Len(issued) /\ issued[q.t].user = q.u

\* Another request carrying the same _u and _t finished authenticated.
UsedBefore(r) ==
  \E o \in Req \ {r} :
    /\ reqs[o].query = reqs[r].query
    /\ reqs[o].pc = "done"
    /\ reqs[o].userId = reqs[r].query.u

\* No other request carrying the same _u and _t has passed the lookup.
FirstUse(r) ==
  \A o \in Req \ {r} :
    reqs[o].query = reqs[r].query =>
      reqs[o].invoked = <<>> \/ reqs[o].reason = "authRequired"

\* C7: tokens are single-use. The first request that carries an issued,
\* unexpired token with its user passes the validation and is authenticated
\* as that user; every request that carries the same pair after such a
\* request finished is rejected with AuthenticationRequiredError.
C7_SingleUse ==
  [][\A r \in Req :
       /\ LookupStep(r) /\ UsedBefore(r) =>
            reqs'[r].reason = "authRequired" /\ reqs'[r].userId = NoUser
       /\ (LookupStep(r) /\ FirstUse(r) /\ IssuedTo(reqs[r].query)
             /\ now <= issued[reqs[r].query.t].expiry) =>
            reqs'[r].pc = "authPull"
       /\ (reqs[r].pc = "authPull" /\ reqs'[r].pc # "authPull") =>
            reqs'[r].userId = reqs[r].query.u]_vars

\* One request was authenticated with a token and another one carrying the
\* same token was rejected, the token being unexpired to this day.
C7_Witness ==
  \E a, b \in Req :
    /\ a # b
    /\ reqs[a].query = reqs[b].query
    /\ reqs[a].pc = "done" /\ reqs[a].userId = reqs[a].query.u
    /\ reqs[b].pc = "done" /\ reqs[b].reason = "authRequired"
    /\ IssuedTo(reqs[b].query)
    /\ now <= issued[reqs[b].query.t].expiry

\* The lookup of request r is made with a token of the user's set whose
\* expiry has elapsed.
ExpiredTry(r) ==
  /\ LookupStep(r)
  /\ \E e \in tokens[reqs[r].query.u] : e.token = reqs[r].query.t /\ e.expiry < now

\* C8 as claimed: a validation attempt with an expired token fails, and that
\* attempt removes every expired token of the user from the user's set.
C8_FailedAttemptPurges ==
  [][\A r \in Req :
       ExpiredTry(r) =>
         /\ reqs'[r].reason = "authRequired"
         /\ \A e \in tokens'[reqs[r].query.u] : e.expiry >= now]_vars

\* C8 as amended: a validation attempt with an expired token fails and leaves
\* every token set as it was; tokens leave a user's set only in the $pull of a
\* successful validation for that user, which removes the validated token and
\* every expired token of that user.
C8_FailedAttemptKeeps ==
  [][/\ \A r \in Req :
          ExpiredTry(r) => reqs'[r].reason = "authRequired" /\ tokens' = tokens
     /\ \A u \in Users :
          ~(tokens[u] \subseteq tokens'[u]) =>
            \E r \in Req :
              /\ reqs[r].pc = "authPull" /\ reqs[r].query.u = u
              /\ reqs'[r].userId = u
              /\ tokens'[u] = {e \in tokens[u] :
                                 e.token # reqs[r].query.t /\ e.expiry >= now}]_vars

\* A request was rejected for its token, which is in the user's set to this
\* day and so was in it, expired, when the request looked it up.
C8_Witness ==
  \E r \in Req :
    LET q == reqs[r].query IN
    /\ reqs[r].pc = "done" /\ reqs[r].reason = "authRequired"
    /\ IssuedTo(q)
    /\ \E e \in tokens[q.u] : e.token = q.t /\ e.expiry < now

\* Merging route trees key-wise at every depth, as C9 describes addRoutes.
RECURSIVE MergeDeep(_, _)
MergeDeep(dst, src) ==
  Obj([k \in DOMAIN dst.kids \cup DOMAIN src.kids |->
         IF k \notin DOMAIN src.kids THEN dst.kids[k]
         ELSE IF k \in DOMAIN dst.kids /\ dst.kids[k].kind = "obj"
                   /\ src.kids[k].kind = "obj"
           THEN MergeDeep(dst.kids[k], src.kids[k])
         ELSE src.kids[k]])

RECURSIVE MergedAll(_)
MergedAll(trees) ==
  IF trees = <<>> THEN Obj(NoKids)
  ELSE MergeDeep(MergedAll(SubSeq(trees, 1, Len(trees) - 1)), trees[Len(trees)])

RouteNames == {Hello, NameAB, NameAC, <<"a">>}

\* C9: addRoutes merges key-wise at every depth: every name that resolves to
\* a handler in the deep merge of the trees added so far resolves to that
\* handler in the route table.
C9_AddRoutesMergesDeep ==
  \A n \in RouteNames :
    LET want == getFieldValue(MergedAll(added), n)
    IN  want.kind = "fn" => getFieldValue(routes, n) = want

\* Walking the route table by own properties only.
RECURSIVE OwnWalk(_, _)
OwnWalk(o, parts) ==
  IF parts = <<>> THEN o
  ELSE IF o.kind = "obj" /\ Str(parts[1]) \in DOMAIN o.kids
    THEN OwnWalk(o.kids[Str(parts[1])], Tail(parts))
  ELSE UndefinedNode

Registered(name) == OwnWalk(routes, Split(name, ".")).kind \in {"fn", "obj"}

\* C10: a request to the catch-all path whose name is not registered passes
\* through: the middleware does not throw, no route is applied, the catch-all
\* entry returns undefined, and with the later entries declining too the
\* request ends with next() called once, with no error.
C10_UnregisteredPassesThrough ==
  \A r \in Req :
    LET st == reqs[r]
        m == Exec(DefaultRoutePath, st.path)
    IN  (Started(st) /\ m.matched /\ ~Registered(m.caps[1].str)) =>
          /\ st.attached
          /\ st.routeCalls = <<>>
          /\ st.reason \notin {"TypeError"}
          /\ (Len(st.results) >= 2 => st.results[2] = "undefined")
          /\ (st.pc = "done" /\ st.reason = "none") =>
               st.invoked = Matching(st) /\ st.nextLog = <<"noError">>

\* The request of the URL the page built last, not turned away by the
\* built-in authentication entry.
CarriesCall(st) ==
  /\ client.call.via # "none"
  /\ Started(st)
  /\ st.path = ServerPath(client.url)
  /\ st.reason # "authRequired"

\* C11: url.N(a1..an) and redirect.N(a1..an) use the URL getRouteUrl(N,
\* a1..an) builds, and the server, asked for the URL built for a call, maps it
\* to the name N and the arguments (a1..an): the middleware does not throw,
\* the route N is the one applied, with exactly these arguments, and the
\* request does not end without it.
C11_ArgumentRoundTrip ==
  /\ client.call.via \in {"url", "redirect"} =>
       client.url = getRouteUrl(client.call.name, client.call.args)
  /\ \A r \in Req :
       LET st == reqs[r] IN
       CarriesCall(st) =>
         /\ st.attached
         /\ \A i \in 1..Len(st.routeCalls) :
              st.routeCalls[i] =
                [id |-> getFieldValue(routes, client.call.name).id,
                 args |-> client.call.args]
         /\ st.pc = "done" => Len(st.routeCalls) = 1

\* A step in which the page calls redirectTo.
RedirectToStarts ==
  /\ client.rpc = "none"
  /\ client'.rpc = "sent" \/ Len(client'.outcomes) > Len(client.outcomes)

\* The query parameters of URL h that are not _u or _t are parameters of
\* URL g, with their values.
KeepsQuery(h, g) ==
  \A k \in DOMAIN h.vals \ {"_u", "_t"} :
    /\ k \in DOMAIN g.vals /\ g.vals[k] = h.vals[k]
    /\ \E i \in 1..Len(g.keys) : g.keys[i] = k

LoadStep == ~client.loaded /\ client'.loaded

\* C13: the signal is read once per page. Read armed on the page of a local
\* user it starts one redirectTo of the current URL, which calls the token
\* method once; read unarmed, or on a page without a local user, it starts
\* nothing: no method call, no navigation.
C13_SelfRedirectOnce ==
  [][/\ client.loaded => client'.loaded
     /\ (LoadStep /\ client.signal /\ client.userId # NoUser) =>
          /\ client'.rpc = "sent" /\ client'.rpcs = client.rpcs + 1
          /\ client'.target = client.href
          /\ client'.uid = client.userId
     /\ (LoadStep /\ ~(client.signal /\ client.userId # NoUser)) =>
          /\ client'.rpc = "none" /\ client'.rpcs = client.rpcs
          /\ client'.navs = client.navs /\ client'.href = client.href
          /\ client'.outcomes = client.outcomes]_vars

\* The page of a user read the armed signal and its one self-redirect has
\* navigated, to the URL the page was at.
C13_Witness ==
  /\ client.loaded /\ client.signal /\ client.ops = 0
  /\ client.rpcs = 1 /\ Len(client.navs) = 1
  /\ client.navs[1].path = client.target.path
  /\ client.navs[1].vals["_u"] = client.userId

\* The token of request r is in its user's set and has not expired.
ValidNow(r) ==
  \E e \in tokens[reqs[r].query.u] :
    e.token = reqs[r].query.t /\ e.expiry >= now

\* What C14 says of a request as it stands.
AuthFirst(st) ==
  /\ Started(st) =>
       /\ Matching(st)[1] = 1
       /\ st.mapped # <<>> => st.mapped[1] = 1
       /\ Len(st.invoked) >= 2 => st.results[1] = "undefined"
  /\ (st.query.u = NoUser /\ st.results # <<>>) =>
       st.results[1] = "undefined" /\ st.userId = NoUser
  /\ (st.results # <<>> /\ st.results[1] = "authRequired") =>
       st.mapped = <<1>> /\ st.userId = NoUser
  /\ (st.pc = "done" /\ st.results # <<>> /\ st.results[1] = "undefined"
        /\ Len(Matching(st)) >= 2) =>
       Len(st.mapped) >= 2

\* C14: the built-in entry is the first registered and the first called on
\* every request. Without _u it returns undefined, sets no userId and leaves
\* the token store alone; with _u and a valid _t it sets userId to _u and the
\* next matching entry is called; with _u and a _t that is missing, unknown
\* or expired it fails with AuthenticationRequiredError and no later entry is
\* called.
C14_AuthEntryFirst ==
  [][/\ paths'[1].route = "auth"
     /\ \A r \in Req :
          /\ AuthFirst(reqs[r])'
          /\ (reqs'[r] # reqs[r] /\ reqs[r].query.u = NoUser /\ Started(reqs[r])) =>
               tokens' = tokens
          /\ (LookupStep(r) /\ ValidNow(r)) => reqs'[r].pc = "authPull"
          /\ (LookupStep(r) /\ ~ValidNow(r)) => reqs'[r].reason = "authRequired"
          /\ (reqs[r].pc = "authPull" /\ reqs'[r].pc # "authPull") =>
               /\ reqs'[r].userId = reqs[r].query.u
               /\ reqs'[r].results = <<"undefined">>]_vars

\* C15: no double spend. Of two requests that carry the same _u and _t, with
\* the lookups and the pulls of their built-in routes interleaved in any
\* order, at most one is authenticated.
C15_NoDoubleSpend ==
  \A a, b \in Req :
    (a # b /\ reqs[a].query = reqs[b].query /\ reqs[a].query.u # NoUser) =>
      ~(reqs[a].userId = reqs[a].query.u /\ reqs[b].userId = reqs[b].query.u)

\* C16: a dispatch that is over has exactly one terminal outcome, whatever
\* its handlers returned: the router ended the response and next was not
\* called, or the router did not and next was called once; next is never
\* called twice.
C16_OneTerminalOutcome ==
  \A r \in Req :
    LET st == reqs[r] IN
    /\ Len(st.nextLog) <= 1
    /\ st.pc = "done" =>
         \/ RouterEnds(st) # {} /\ st.nextLog = <<>>
         \/ RouterEnds(st) = {} /\ Len(st.nextLog) = 1

\* The step in which request r's catch-all entry maps its arguments and
\* looks its route up.
RouteStep(r) ==
  /\ reqs[r].pc = "ready"
  /\ Current(reqs[r]).route = "catchAll"
  /\ reqs'[r] # reqs[r]

\* C17: the lookup of a dotted name yields a handler only when every segment
\* resolves in the route table and the last node is a handler, and that
\* handler is then the one applied; for every other name (a missing segment,
\* a name that stops at a namespace, a name that goes on past a handler) the
\* catch-all entry applies nothing, raises nothing and returns undefined.
C17_LookupAllOrNothing ==
  [][\A r \in Req :
       RouteStep(r) =>
         LET name == Params(Current(reqs[r]), reqs[r].path)["name"].str
             node == OwnWalk(routes, Split(name, "."))
             calls == reqs'[r].routeCalls
         IN  IF node.kind = "fn"
               THEN /\ Len(calls) = Len(reqs[r].routeCalls) + 1
                    /\ calls[Len(calls)].id = node.id
               ELSE /\ calls = reqs[r].routeCalls
                    /\ reqs'[r].reason = "none"
                    /\ reqs'[r].results[Len(reqs'[r].results)] = "undefined"]_vars

\* The request matches the catch-all path with the name of a registered
\* handler and no argument segment.
ZeroArguments(st) ==
  LET m == Exec(DefaultRoutePath, st.path)
  IN  /\ Started(st)
      /\ m.matched
      /\ ~m.caps[2].def
      /\ OwnWalk(routes, Split(m.caps[1].str, ".")).kind = "fn"

\* C18: on a request for a registered route with no argument segment the
\* middleware does not throw, the route is applied with the empty argument
\* list, and once the built-in entry has let the request pass it does not end
\* without the route having been applied.
C18_ZeroArguments ==
  \A r \in Req :
    LET st == reqs[r] IN
    ZeroArguments(st) =>
      /\ st.attached
      /\ \A i \in 1..Len(st.routeCalls) : st.routeCalls[i].args = <<>>
      /\ (st.pc = "done" /\ st.results # <<>> /\ st.results[1] = "undefined") =>
           Len(st.routeCalls) = 1

\* C19: the frame of the token store. getUserToken for a user adds one new
\* token, expiring 60 seconds from now, to that user's set and changes
\* nothing else; a successful validation of (u, t) removes from u's set t
\* and the tokens of u that have expired, and nothing else; no other step
\* changes the store. So two outstanding tokens of one user are each usable.
C19_TokenStoreFrame ==
  [][/\ issued' # issued =>
          LET u == issued'[Len(issued')].user
              e == [token |-> Len(issued'), expiry |-> now + TokenTtl]
          IN  /\ Len(issued') = Len(issued) + 1
              /\ SubSeq(issued', 1, Len(issued)) = issued
              /\ issued'[Len(issued')].expiry = now + 60 * 1000
              /\ \A v \in Users : \A x \in tokens[v] : x.token # e.token
              /\ tokens' = [tokens EXCEPT ![u] = @ \cup {e}]
              /\ reqs' = reqs
     /\ \A r \in Req :
          (reqs[r].pc = "authPull" /\ reqs'[r].pc # "authPull") =>
            LET q == reqs[r].query
            IN  tokens' = [tokens EXCEPT ![q.u] =
                             {x \in @ : x.token # q.t /\ x.expiry >= now}]
     /\ tokens' # tokens =>
          \/ issued' # issued
          \/ \E r \in Req : reqs[r].pc = "authPull" /\ reqs'[r].pc # "authPull"]_vars

\* Two tokens of one user were outstanding together, and each authenticated
\* a request.
C19_Witness ==
  \E a, b \in Req :
    /\ reqs[a].userId = "u1" /\ reqs[b].userId = "u1"
    /\ reqs[a].query.t # reqs[b].query.t
    /\ Len(issued) = 2
    /\ reqs[a].pc = "done" /\ reqs[b].pc = "done"

\* C20: authentication is sound. The context of a request starts without a
\* userId; a userId is set only by the request's own built-in route, only to
\* the request's _u, and only after a lookup that found the request's _t, a
\* token issued to that user, in that user's set with expiry >= the time of
\* the lookup; setting it for one request changes no other request's.
C20_AuthenticationSound ==
  [][\A r \in Req :
       /\ (reqs[r].pc = "idle" /\ reqs'[r].pc # "idle") => reqs'[r].userId = NoUser
       /\ reqs'[r].userId # NoUser =>
            reqs'[r].userId = reqs'[r].query.u /\ IssuedTo(reqs'[r].query)
       /\ reqs'[r].userId # reqs[r].userId =>
            /\ reqs[r].pc = "authPull"
            /\ \A o \in Req \ {r} : reqs'[o].userId = reqs[o].userId
       /\ (reqs'[r].pc = "authPull" /\ reqs[r].pc # "authPull") =>
            /\ LookupStep(r)
            /\ IssuedTo(reqs[r].query)
            /\ ValidNow(r)]_vars

\* A request was authenticated as the user its token was issued to, and
\* another request, carrying that token with the other user's id, was not.
C20_Witness ==
  \E a, b \in Req :
    /\ reqs[a].pc = "done" /\ reqs[a].userId = "u1"
    /\ reqs[b].pc = "done" /\ reqs[b].query = [u |-> "u2", t |-> reqs[a].query.t]
    /\ reqs[b].userId = NoUser /\ reqs[b].reason = "authRequired"

\* The route's handler has run with userId set to the page's user and has
\* answered, and no signal is armed.
Completed ==
  /\ reqs[1].pc = "done"
  /\ reqs[1].userId = client.userId
  /\ reqs[1].results # <<>> /\ reqs[1].results[Len(reqs[1].results)] = "body"
  /\ ~reqs[1].signal

\* C21: the handshake completes. The browser of a user, sent to the URL of a
\* route that fails with AuthenticationRequiredError while userId is unset,
\* ends, after finitely many self-redirects, at the route's handler having run
\* with userId set and no signal armed, whether the server knows the user of
\* the page's connection or not; one token is enough when none expires.
C21_HandshakeCompletes ==
  /\ <>Completed
  /\ [](Completed /\ now = 0 => Len(issued) = 1)

====
